---------------------------- MODULE Spec2Model ----------------------------
(***************************************************************************)
(* Vital-sign forwarding front-ends of the MP5 monitor listener:           *)
(*   listener : Vital-signs/vital_sign_listener.py        (API sink)       *)
(*   debug    : Vital-signs/vital_sign_listener_debug.py  (API sink,       *)
(*              auto-reconnect)                                            *)
(*   plot     : Vital-signs/plotting_example/plot_vital_signs.py (file)    *)
(*                                                                         *)
(* One loop iteration is modelled as the sequence of its blocks            *)
(* (poll+identity, continuous block, NBP block, sleep), pc naming the      *)
(* block that runs next.  The device is an opaque polled source: every     *)
(* field of the snapshot is drawn by the block that reads it.              *)
(*                                                                         *)
(* A run exercises the device in one profile.  In profile "loop" the NBP   *)
(* capture, the patient data and the connection vary freely and the        *)
(* continuous block is not observed.  In a channel profile ("hr",          *)
(* "oxygen", "temp", "resp") that channel delivers every kind of reading   *)
(* and what the continuous block read is kept in `sample`, while the other *)
(* channels deliver their nominal reading.                                 *)
(* In profile "sinkdown" the NBP capture varies as in "loop", the other    *)
(* inputs are nominal and every call of the sink fails.  In profile        *)
(* "session" the time the device takes to become active and the patient    *)
(* data vary, halt_client() may raise, a shutdown request may arrive at    *)
(* any point and the vitals are nominal; in the other profiles a device    *)
(* that was connected is active at once, halt_client() succeeds and a      *)
(* shutdown request arrives during the sleep of the loop.                  *)
(*                                                                         *)
(* Readings are fixed-point numbers with Scale units per 1.0, one decimal  *)
(* digit finer than round(x, 1) keeps, so that int() and round() are       *)
(* modelled by what they do.  Strings are sequences of characters.         *)
(***************************************************************************)
EXTENDS Integers, Sequences, FiniteSets, TLC

(* ------------------------------ bounds -------------------------------- *)

\* NBP timestamps and connection-start times are 1..MaxTime; 0 stands for
\* the initial watermark 01.01.1990 00:00:00.
MaxTime == 3

\* The two continuous tick counters range over 0..MaxTick.
MaxTick == 1

\* REFRESH_INTERVAL of the modelled run (the default of the code is 10).
RefreshInterval == 2

(* ------------------------- program constants -------------------------- *)

DecimalsKept == 1

Scale == 10 ^ (DecimalsKept + 1)

Tenth == Scale \div (10 ^ DecimalsKept)

ErrorValue == 8388607

HeartRateMax == 300

OxygenMax == 100

TempMin == 20

TempMax == 50

RespRateMax == 100

BpSysMax == 300

BpDiasMax == 200

BpSysArtifact == 10

\* the default of MAX_CONNECTION_ERRORS
MaxConnectionErrors == 3

\* debug: the number of one-second checks of dev.is_active after connecting
ConnectTimeout == 30

\* datetime.strptime("01.01.1990 00:00:00", ...)
InitialNbpTime == 0

(* --------------------------- value domains ---------------------------- *)

\* n as a reading (n.0)
R(n) == n * Scale

Sentinel == R(ErrorValue)

\* A raw channel entry temp_l[i][1]: a number, a value float() cannot
\* convert (ValueError), or an entry the snapshot does not hold.
Num(n) == [kind |-> "num", val |-> n]

Bad == [kind |-> "bad", val |-> 0]

Absent == [kind |-> "absent", val |-> 0]

Frontends == {"listener", "debug", "plot"}

Channels == {"hr", "oxygen", "temp", "resp"}

HeartRateReadings ==
    {Num(R(0) - R(1)), Num(R(72)), Num(R(HeartRateMax)), Num(Sentinel), Bad}

OxygenReadings ==
    {Num(R(0)), Num(R(98)), Num(R(OxygenMax)), Num(R(OxygenMax) + (Scale \div 2)),
     Num(Sentinel)}

\* 36.64 is a reading round(x, 1) changes, 49.96 one it takes to 50.0
TempReadings ==
    {Num(R(TempMin)), Num(R(36) + 64), Num(R(TempMax) - 4), Num(R(TempMax)),
     Num(Sentinel), Bad, Absent}

\* 16.5 is a reading int() changes
RespRateReadings ==
    {Num(R(0)), Num(R(16) + (Scale \div 2)), Num(R(RespRateMax)), Num(Sentinel), Absent}

NominalReading ==
    [hr |-> Num(R(72)), oxygen |-> Num(R(98)), temp |-> Num(R(36) + 64),
     resp |-> Num(R(16) + (Scale \div 2))]

\* the readings of profile "loop"
LoopReadings ==
    [hr |-> {Num(R(0) - R(1)), Num(R(72)), Num(Sentinel), Bad},
     oxygen |-> {Num(R(98)), Num(R(OxygenMax))},
     temp |-> {Num(R(36) + 64), Num(Sentinel), Absent},
     resp |-> {Num(R(16) + (Scale \div 2)), Absent}]

AllReadings ==
    [hr |-> HeartRateReadings, oxygen |-> OxygenReadings, temp |-> TempReadings,
     resp |-> RespRateReadings]

\* <<temp_l[0][1], temp_l[1][1]>>: systolic and diastolic of one capture
BpReadings ==
    { <<Num(R(5)), Num(R(80))>>, <<Num(R(120)), Num(R(80))>>,
      <<Num(R(BpSysMax)), Num(R(BpDiasMax))>>, <<Bad, Num(R(80))>> }

Times == 1..MaxTime

\* connection-start times: one that no NBP timestamp of the model precedes
\* is left out
StartTimes == 1..(MaxTime - 1)

Ticks == 0..MaxTick

\* (tick of the sample, tick of the connection start)
TickPairs == {p \in Ticks \X Ticks : p[1] >= p[2]}

(* ------------------------------ strings ------------------------------- *)

Space == " "

EmptyStr == << >>

RECURSIVE LStrip(_)
LStrip(s) == IF s # << >> /\ Head(s) = Space THEN LStrip(Tail(s)) ELSE s

RECURSIVE RStrip(_)
RStrip(s) ==
    IF s # << >> /\ s[Len(s)] = Space THEN RStrip(SubSeq(s, 1, Len(s) - 1)) ELSE s

\* str.strip()
Strip(s) == LStrip(RStrip(s))

RECURSIVE Collapse(_)
Collapse(s) ==
    IF Len(s) < 2 THEN s
    ELSE IF s[1] = Space /\ s[2] = Space THEN Collapse(Tail(s))
    ELSE <<Head(s)>> \o Collapse(Tail(s))

\* ' '.join(s.split())
JoinSplit(s) == Collapse(Strip(s))

PatientA == <<"I", "D", "1", "2", "3">>

John == <<"J", "o", "h", "n">>

Doe == <<"D", "o", "e">>

Jane == <<"J", "a", "n", "e">>

Unknown == <<"U", "n", "k", "n", "o", "w", "n">>

\* what dev.get_patient_data() returns: "raise", or id / prename / name
ReadOfPatientA ==
    [raises |-> FALSE, id |-> PatientA \o <<Space>>, prename |-> John, name |-> Doe]

PatientReads ==
    { [raises |-> TRUE, id |-> EmptyStr, prename |-> EmptyStr, name |-> EmptyStr],
      [raises |-> FALSE, id |-> EmptyStr, prename |-> EmptyStr, name |-> EmptyStr],
      ReadOfPatientA,
      [raises |-> FALSE, id |-> EmptyStr, prename |-> Jane, name |-> EmptyStr] }

DeWit == <<"D", "e", " ", "W", "i", "t">>

DeWitWide == <<"D", "e", " ", " ", "W", "i", "t">>

\* two reads of one patient that differ in a run of spaces inside the name
SpacedReads ==
    { [raises |-> FALSE, id |-> PatientA, prename |-> John, name |-> DeWit],
      [raises |-> FALSE, id |-> PatientA, prename |-> John, name |-> DeWitWide] }

(* ------------------------------- state -------------------------------- *)

VARIABLES
    profile,                \* how the device is exercised in this run
    frontend,               \* which front-end runs
    pc,                     \* the block of the program that runs next
    last_valid_heart_rate,  \* last-valid cache
    last_valid_oxygen,
    last_valid_temp,
    last_valid_resp_rate,
    last_patient_name,      \* stored identity
    last_patient_id,
    last_vital_time,        \* continuous watermark
    last_NBP_time,          \* NBP watermark
    refresh_counter,
    poll_phase,             \* polls made in this session, modulo RefreshInterval
    connection_error_count, \* debug: the failure counter of the data loop
    polled,                 \* what the poll of this iteration returned, kept until the
                            \* continuous block has run
    dropped,                \* debug: the cache as it was when the data loop was last
                            \* left, kept until the next new continuous sample
    dev,                    \* the session bound to `dev`: "none", "open" or "halted"
    abandoned,              \* a session was replaced by a new one without halt_client()
    waited,                 \* debug: when the device became active and the wait_count
                            \* the wait loop ended with, kept for one step
    closed,                 \* the halt_client() of the last teardown and whether it
                            \* raised, kept until the next poll
    patient_id,             \* locals of the iteration
    full_name,
    diff_time,
    refreshed,              \* this iteration called dev.refresh_patient_data()
    sample,                 \* channel profiles: what the continuous block read
    v,                      \* this iteration's temp_l[4][1], 0 before it is read
    w,                      \* this iteration's temp_l[10][1], 0 before it is read
    nbp_fired,              \* this iteration's NBP trigger fired
    bp_sys,                 \* float(temp_l[0][1]) of this iteration, 0 before it is read
    bp_dias,                \* float(temp_l[1][1]) of this iteration, 0 before it is read
    out,                    \* the call of the sink made by this iteration
    warned,                 \* this iteration logged "No patient ID available"
    emitted                 \* NBP timestamps handed to the sink so far in the run

cache == <<last_valid_heart_rate, last_valid_oxygen, last_valid_temp, last_valid_resp_rate>>

identity == <<last_patient_name, last_patient_id>>

watermarks == <<last_vital_time, last_NBP_time>>

locals == <<patient_id, full_name, diff_time>>

observed == <<refreshed, sample, v, w, nbp_fired, bp_sys, bp_dias, out, warned>>

sessions == <<dev, abandoned, waited, closed>>

vars == <<profile, frontend, pc, cache, identity, watermarks, refresh_counter, poll_phase,
          connection_error_count, polled, dropped, sessions, locals, observed, emitted>>

NoEvent == [sink |-> "none"]

NoSample == [taken |-> FALSE]

NoPoll == [taken |-> FALSE]

NoDrop == [at |-> FALSE]

NoWait == [taken |-> FALSE]

NoClose == [taken |-> FALSE]

\* the readings a channel delivers in this run
ReadingsOf(channel) ==
    IF profile = "loop" THEN LoopReadings[channel]
    ELSE IF profile = channel THEN AllReadings[channel]
    ELSE {NominalReading[channel]}

\* what dev.get_patient_data() does in this run
PatientReadsOf ==
    IF profile = "loop" THEN PatientReads
    ELSE IF profile = "session" THEN PatientReads \cup SpacedReads
    ELSE {ReadOfPatientA}

\* <<temp_l[4][1], temp_l[10][1]>> in this run
NbpTimesOf ==
    IF profile \in {"loop", "sinkdown"} THEN Times \X StartTimes ELSE {<<1, 1>>, <<2, 1>>}

BpReadingsOf ==
    IF profile = "loop" THEN BpReadings
    ELSE {<<Num(R(5)), Num(R(80))>>, <<Num(R(120)), Num(R(80))>>}

\* what requests.post does: an HTTP response with a status and a body that is
\* JSON or not, or a raised error
Http(status, json) == [kind |-> "http", status |-> status, json |-> json]

ConnectionError == [kind |-> "connection_error"]

Timeout == [kind |-> "timeout"]

\* how the sink answers a call in this run
SinkAnswersOf ==
    IF profile = "loop" THEN {Http(200, TRUE), Http(500, TRUE)}
    ELSE IF profile = "sinkdown" THEN {Http(500, TRUE), ConnectionError, Timeout}
    ELSE IF profile = "session"
    THEN {Http(200, TRUE), Http(201, TRUE), Http(200, FALSE), Http(201, FALSE),
          Http(404, FALSE), Http(500, TRUE), ConnectionError, Timeout}
    ELSE {Http(200, TRUE)}

\* datetime.now() at a call of the sink in this run: a moment after every
\* NBP timestamp, or any moment
NowOf == IF profile = "session" THEN Times \cup {MaxTime + 1} ELSE {MaxTime + 1}

\* whether dev.halt_client() raises in this run
CloseFailuresOf == IF profile = "session" THEN BOOLEAN ELSE {FALSE}

\* where a shutdown request may arrive in this run
ShutdownPointsOf ==
    IF profile = "session"
    THEN {"connect", "backoff", "poll", "cont", "cont2", "nbp", "sleep", "continue"}
    ELSE {"sleep"}

\* the device never reports active
Never == -1

\* after how many seconds dev.is_active becomes True in this run
ActivationTimesOf ==
    IF profile = "session"
    THEN {0, 1, ConnectTimeout - 1, ConnectTimeout, ConnectTimeout + 1, Never}
    ELSE {0}


(* ------------------------- value sanitization ------------------------- *)

\* int(x) of a float: truncation toward zero
IntOf(x) == IF x >= 0 THEN (x \div Scale) * Scale ELSE 0 - (((0 - x) \div Scale) * Scale)

\* round(x, 1) of a non-negative float: to the nearest tenth, halves to even
Round1(x) ==
    LET q == x \div Tenth
        r == x % Tenth
    IN  IF 2 * r < Tenth THEN q * Tenth
        ELSE IF 2 * r > Tenth THEN (q + 1) * Tenth
        ELSE IF q % 2 = 0 THEN q * Tenth ELSE (q + 1) * Tenth

\* f"{x:.0f}" of a non-negative float: to the nearest integer, halves to even
Round0(x) ==
    LET q == x \div Scale
        r == x % Scale
    IN  IF 2 * r < Scale THEN q * Scale
        ELSE IF 2 * r > Scale THEN (q + 1) * Scale
        ELSE IF q % 2 = 0 THEN q * Scale ELSE (q + 1) * Scale

\* a store of the heart rate that filters nothing
StoreHeartRateUnfiltered(current, old) == current

\* "Store last valid values": the new content of each cache entry
StoreHeartRate(current, old) ==
    IF current < R(HeartRateMax) /\ current # Sentinel THEN current ELSE old

StoreOxygen(current, old) ==
    IF current <= R(OxygenMax) /\ current # Sentinel THEN current ELSE old

StoreTemp(current, old) ==
    IF current > R(TempMin) /\ current < R(TempMax) /\ current # Sentinel
    THEN current ELSE old

StoreRespRate(current, old) ==
    IF current > 0 /\ current < R(RespRateMax) /\ current # Sentinel
    THEN current ELSE old

\* a read that takes both values for 0 as soon as one entry is missing
ReadTempRespBothOrNone(t, r) ==
    IF t.kind # "num" \/ r.kind # "num" THEN <<0, 0>> ELSE <<t.val, r.val>>

\* "Safely get temp and resp_rate": <<current_temp, current_resp_rate>>.
\* A missing entry reads as 0; a ValueError in either conversion sets both to 0.
ReadTempResp(t, r) ==
    IF t.kind = "bad" \/ (t.kind = "num" /\ r.kind = "bad") THEN <<0, 0>>
    ELSE << IF t.kind = "num" THEN t.val ELSE 0,
            IF r.kind = "num" THEN r.val ELSE 0 >>

\* diff_time = ((temp_l[8][1] * 0.000125) / 60) - ((temp_l[9][1] * 0.000125) / 60),
\* in units of 0.000125 / 60 minutes
DiffTime(tick_a, tick_b) == tick_a - tick_b

\* a trigger that takes a capture at the connection start for a reading
NbpTriggerFromStart(nbp_time, conn_start, last) ==
    (nbp_time - conn_start >= 0) /\ (last # nbp_time)

\* (v - w).total_seconds() > 0 and last_NBP_time != v
NbpTrigger(nbp_time, conn_start, last) == (nbp_time - conn_start > 0) /\ (last # nbp_time)

(* -------------------------------- sinks ------------------------------- *)

\* the default of the parameter `timestamp`
None == -2

\* a sink that stamps every event with the time of the call
TimestampAlwaysNow(timestamp, now) == now

\* if timestamp is None: timestamp = datetime.now()
TimestampOrNow(timestamp, now) == IF timestamp = None THEN now ELSE timestamp

Digit(n) == <<"0", "1", "2", "3", "4", "5", "6", "7", "8", "9">>[n + 1]

\* %H, %M, %S: two decimal digits
TwoDigits(n) == <<Digit((n \div 10) % 10), Digit(n % 10)>>

\* %H:%M:%S of the moment t seconds after 01.01.1990 00:00:00
ClockStr(t) ==
    TwoDigits((t \div 3600) % 24) \o <<":">> \o TwoDigits((t \div 60) % 60) \o <<":">>
    \o TwoDigits(t % 60)

\* timestamp.strftime('%Y-%m-%d %H:%M:%S'), for a moment of 01.01.1990
TimestampStr(t) ==
    <<"1", "9", "9", "0", "-", "0", "1", "-", "0", "1", " ">> \o ClockStr(t)

\* timestamp.strftime('%d.%m.%Y %H:%M:%S'), for a moment of 01.01.1990
FileTimestampStr(t) ==
    <<"0", "1", ".", "0", "1", ".", "1", "9", "9", "0", " ">> \o ClockStr(t)

NoFields == [f \in {} |-> 0]

Field(cond, name, val) == IF cond THEN name :> val ELSE NoFields

\* a body whose pulse_rate is checked against the upper bound only
ApiPayloadNoLowerBound(pid, hr, oxygen, sys, dias, temperature, resp_rate, timestamp) ==
    ("patient_code" :> JoinSplit(pid)) @@ ("measured_at" :> TimestampStr(timestamp))
    @@ Field(sys > 0 /\ sys < R(BpSysMax), "blood_pressure_systolic", IntOf(sys))
    @@ Field(dias > 0 /\ dias < R(BpDiasMax), "blood_pressure_diastolic", IntOf(dias))
    @@ Field(hr < R(HeartRateMax), "pulse_rate", IntOf(hr))
    @@ Field(oxygen > 0 /\ oxygen <= R(OxygenMax), "spo2", Round1(oxygen))
    @@ Field(temperature > R(TempMin) /\ temperature < R(TempMax), "temperature",
             Round1(temperature))
    @@ Field(resp_rate > 0 /\ resp_rate < R(RespRateMax), "respiratory_rate",
             IntOf(resp_rate))

\* send_vital_signs: the JSON body (credentials left out)
ApiPayload(pid, hr, oxygen, sys, dias, temperature, resp_rate, timestamp) ==
    ("patient_code" :> JoinSplit(pid)) @@ ("measured_at" :> TimestampStr(timestamp))
    @@ Field(sys > 0 /\ sys < R(BpSysMax), "blood_pressure_systolic", IntOf(sys))
    @@ Field(dias > 0 /\ dias < R(BpDiasMax), "blood_pressure_diastolic", IntOf(dias))
    @@ Field(hr > 0 /\ hr < R(HeartRateMax), "pulse_rate", IntOf(hr))
    @@ Field(oxygen > 0 /\ oxygen <= R(OxygenMax), "spo2", Round1(oxygen))
    @@ Field(temperature > R(TempMin) /\ temperature < R(TempMax), "temperature",
             Round1(temperature))
    @@ Field(resp_rate > 0 /\ resp_rate < R(RespRateMax), "respiratory_rate",
             IntOf(resp_rate))

\* write_vital_signs_to_file: the fields of the appended line ("N/A" is a
\* field left out)
FileLine(name, pid, hr, oxygen, sys, dias, timestamp) ==
    ("timestamp" :> FileTimestampStr(timestamp)) @@ ("patient" :> JoinSplit(name)) @@ ("id" :> JoinSplit(pid))
    @@ Field(hr > 0, "heart_rate", Round0(hr)) @@ Field(oxygen > 0, "oxygen", Round1(oxygen))
    @@ ("bp_sys" :> Round0(sys)) @@ ("bp_dias" :> Round0(dias))

\* the value send_vital_signs returns: True after a 200 or 201 whose body
\* response.json() could parse, False after any other status and after any
\* exception, the one of response.json() included
SendReturns(response) ==
    /\ response.kind = "http"
    /\ response.status \in {200, 201}
    /\ response.json

\* One call of the sink: the arguments, what the sink received, how the sink
\* answered and what the call returned.
SinkCall(kind, name, pid, hr, oxygen, sys, dias, temperature, resp_rate, timestamp, now, response) ==
    [ sink |-> kind, patient_name |-> name, patient_id |-> pid,
      heart_rate |-> hr, oxygen |-> oxygen, bp_sys |-> sys, bp_dias |-> dias,
      temperature |-> temperature, resp_rate |-> resp_rate, timestamp |-> timestamp,
      payload |-> IF kind = "api"
                  THEN ApiPayload(pid, hr, oxygen, sys, dias, temperature,
                                  resp_rate, TimestampOrNow(timestamp, now))
                  ELSE FileLine(name, pid, hr, oxygen, sys, dias,
                                TimestampOrNow(timestamp, now)),
      response |-> response,
      accepted |-> SendReturns(response) ]

(* ------------------------------ identity ------------------------------ *)

\* an identity fetch without the fallback to the stored identity on an empty
\* read, and with "Unknown" for a failed fetch when nothing is stored
FetchedIdentityUnknown(fe, read, last_id, last_name) ==
    IF read.raises
    THEN [id |-> IF last_id # EmptyStr THEN last_id ELSE Unknown,
          name |-> IF last_name # EmptyStr THEN last_name ELSE Unknown]
    ELSE [id |-> read.id, name |-> Strip(read.prename \o <<Space>> \o read.name)]

\* the iteration's patient_id and full_name after dev.get_patient_data()
FetchedIdentity(fe, read, last_id, last_name) ==
    IF fe = "plot"
    THEN IF read.raises
         THEN [id |-> IF last_id # EmptyStr THEN last_id ELSE Unknown,
               name |-> IF last_name # EmptyStr THEN last_name ELSE Unknown]
         ELSE [id |-> read.id,
               name |-> Strip(read.prename \o <<Space>> \o read.name)]
    ELSE IF read.raises
         THEN [id |-> last_id, name |-> last_name]
         ELSE LET pid == Strip(read.id)
                  fn == Strip(Strip(read.prename) \o <<Space>> \o Strip(read.name))
              IN  [id |-> IF pid = EmptyStr THEN last_id ELSE pid,
                   name |-> IF fn = EmptyStr THEN last_name ELSE fn]

\* a tracker that reports and stores every identity that has an id
IdentityStoredAlways(fe, pid, fn, last_id, last_name) == pid # EmptyStr

\* a tracker that never replaces the stored identity
IdentityStoredNever(fe, pid, fn, last_id, last_name) == FALSE

\* "Update if patient info has changed": whether the change is logged and
\* the stored identity is replaced
IdentityStored(fe, pid, fn, last_id, last_name) ==
    /\ fn # last_name \/ pid # last_id
    /\ IF fe = "plot" THEN fn # EmptyStr \/ pid # EmptyStr ELSE pid # EmptyStr



(* ------------------------------ triggers ------------------------------ *)

\* a trigger that takes every snapshot for new data
ContTriggerAlways(diff, last) == TRUE

\* a trigger that takes only a later timestamp for new data
ContTriggerIncrease(diff, last) == diff > last

\* if diff_time != last_vital_time
ContTrigger(diff, last) == diff # last

\* a continuous block that never stores the heart rate
HeartRateKept(fired, current, old) == old

\* the heart-rate and SpO2 entries after the continuous block
HeartRateAfter(fired, current, old) == IF fired THEN StoreHeartRate(current, old) ELSE old

\* a continuous block that stores the SpO2 reading of every snapshot
OxygenStoredAlways(fired, current, old) == StoreOxygen(current, old)

\* a continuous block that never stores the SpO2 reading
OxygenKept(fired, current, old) == old

\* the SpO2 entry after the continuous block
OxygenAfter(fired, current, old) == IF fired THEN StoreOxygen(current, old) ELSE old

\* the temperature and respiratory-rate entries after the continuous block
TempAfter(fired, current, old) == IF fired THEN StoreTemp(current, old) ELSE old

RespRateAfter(fired, current, old) == IF fired THEN StoreRespRate(current, old) ELSE old

\* last_vital_time after the continuous block
VitalTimeAfter(fired, diff, last) == IF fired THEN diff ELSE last

\* "Only send if we have a patient ID"; the plotting front-end writes always
MaySend(fe, pid) == fe = "plot" \/ pid # EmptyStr

\* "Ignore invalid BP readings (systolic < 10)", debug listener only
Discarded(fe, sys) == fe = "debug" /\ sys < R(BpSysArtifact)

\* an NBP block that leaves the watermark alone
WatermarkKept(nbp_time, last) == last

\* last_NBP_time = v
WatermarkAfter(nbp_time, last) == nbp_time

(* ------------------------------- actions ------------------------------ *)

InitProgram ==
    /\ frontend \in Frontends
    /\ pc = "connect"
    /\ last_valid_heart_rate = 0
    /\ last_valid_oxygen = 0
    /\ last_valid_temp = 0
    /\ last_valid_resp_rate = 0
    /\ last_patient_name = EmptyStr
    /\ last_patient_id = EmptyStr
    /\ last_vital_time = 0
    /\ last_NBP_time = InitialNbpTime
    /\ refresh_counter = 0
    /\ poll_phase = 0
    /\ connection_error_count = 0
    /\ polled = NoPoll
    /\ dropped = NoDrop
    /\ dev = "none"
    /\ abandoned = FALSE
    /\ waited = NoWait
    /\ closed = NoClose
    /\ patient_id = EmptyStr
    /\ full_name = EmptyStr
    /\ diff_time = 0
    /\ refreshed = FALSE
    /\ sample = NoSample
    /\ v = 0
    /\ w = 0
    /\ nbp_fired = FALSE
    /\ bp_sys = 0
    /\ bp_dias = 0
    /\ out = NoEvent
    /\ warned = FALSE
    /\ emitted = {}

Init == profile = "loop" /\ InitProgram

InitChannels == profile \in Channels /\ InitProgram

\* a run in which every call of the sink fails
InitSinkDown == profile = "sinkdown" /\ InitProgram

\* a run in which the connection and the patient data vary and the vitals
\* are nominal
InitSession == profile = "session" /\ InitProgram

\* "Initialize tracking variables"
InitTracking ==
    /\ last_vital_time' = 0
    /\ last_NBP_time' = InitialNbpTime
    /\ refresh_counter' = 0
    /\ poll_phase' = 0
    /\ connection_error_count' = 0

ClearIteration ==
    /\ polled' = NoPoll
    /\ patient_id' = EmptyStr
    /\ full_name' = EmptyStr
    /\ diff_time' = 0
    /\ refreshed' = FALSE
    /\ sample' = NoSample
    /\ v' = 0
    /\ w' = 0
    /\ nbp_fired' = FALSE
    /\ bp_sys' = 0
    /\ bp_dias' = 0
    /\ out' = NoEvent
    /\ warned' = FALSE

\* a connection that starts with an empty cache
CacheOnConnectReset(old) == 0

\* the cache is set in __init__ only: connecting again leaves an entry as it is
CacheOnConnect(old) == old

\* a teardown that gives up when halt_client() raises
AfterTeardownEscalates(failed) == IF failed THEN "exit" ELSE "backoff"

\* try: dev.halt_client() / except: pass, then the delay
AfterTeardown(failed) == "backoff"

\* An exception leaves the loop.  listener, plot: the handler halts the
\* client and the process ends.  debug: _data_collection_loop re-raises, run()
\* halts the client and sleeps; the loop's tracking variables are gone, and
\* run() passes its own (initial) ones to the next loop.
Raise ==
    IF frontend = "debug"
    THEN /\ \E failed \in CloseFailuresOf :
               /\ closed' = [taken |-> TRUE, failed |-> failed]
               /\ pc' = AfterTeardown(failed)
         /\ InitTracking
         /\ dropped' = [at |-> TRUE, cache |-> cache]
         /\ dev' = "halted"
         /\ waited' = NoWait
         /\ UNCHANGED abandoned
    ELSE /\ pc' = "exit"
         /\ dev' = "halted"
         /\ waited' = NoWait
         /\ closed' = NoClose
         /\ UNCHANGED <<watermarks, refresh_counter, poll_phase, connection_error_count, dropped,
                        abandoned>>

\* dev.is_active after `seconds` seconds of a device that becomes active
\* after `active_after`
IsActive(active_after, seconds) == active_after # Never /\ active_after <= seconds

\* a wait loop that makes one more check
RECURSIVE WaitForActiveOneMore(_, _)
WaitForActiveOneMore(active_after, wait_count) ==
    IF ~IsActive(active_after, wait_count) /\ wait_count <= ConnectTimeout
    THEN WaitForActiveOneMore(active_after, wait_count + 1)
    ELSE wait_count

\* while not dev.is_active and wait_count < 30: time.sleep(1); wait_count += 1
RECURSIVE WaitForActive(_, _)
WaitForActive(active_after, wait_count) ==
    IF ~IsActive(active_after, wait_count) /\ wait_count < ConnectTimeout
    THEN WaitForActive(active_after, wait_count + 1)
    ELSE wait_count

\* device(ip), start_client(), start_watchdog().  debug: connect_device()
\* may raise before a session is open, and then the handler of run() halts
\* whatever `dev` is bound to; after it the wait for is_active, and on a
\* timeout `continue` after the delay, with the session left as it is.
Connect ==
    /\ pc = "connect"
    /\ \E opened \in BOOLEAN, active_after \in ActivationTimesOf :
          IF ~opened
          THEN /\ frontend = "debug"
               /\ active_after = 0
               /\ pc' = "backoff"
               /\ dev' = IF dev = "open" THEN "halted" ELSE dev
               /\ waited' = NoWait
               /\ UNCHANGED <<watermarks, refresh_counter, poll_phase, connection_error_count,
                              abandoned, closed>>
          ELSE LET wait_count == IF frontend = "debug"
                                 THEN WaitForActive(active_after, 0) ELSE 0
               IN  /\ frontend # "debug" => active_after = 0
                   /\ dev' = "open"
                   /\ abandoned' = (abandoned \/ dev = "open")
                   /\ UNCHANGED closed
                   /\ waited' = IF frontend = "debug"
                                THEN [taken |-> TRUE, active_after |-> active_after,
                                      wait_count |-> wait_count]
                                ELSE NoWait
                   /\ IF frontend = "debug" /\ ~IsActive(active_after, wait_count)
                      THEN /\ pc' = "backoff"
                           /\ UNCHANGED <<watermarks, refresh_counter, poll_phase,
                                          connection_error_count>>
                      ELSE pc' = "poll" /\ InitTracking
    /\ last_valid_heart_rate' = CacheOnConnect(last_valid_heart_rate)
    /\ last_valid_oxygen' = CacheOnConnect(last_valid_oxygen)
    /\ last_valid_temp' = CacheOnConnect(last_valid_temp)
    /\ last_valid_resp_rate' = CacheOnConnect(last_valid_resp_rate)
    /\ ClearIteration
    /\ UNCHANGED <<profile, frontend, identity, dropped, emitted>>

\* time.sleep(self.reconnect_delay), then the connection loop starts over
Backoff ==
    /\ pc = "backoff"
    /\ pc' = "connect"
    /\ waited' = NoWait
    /\ UNCHANGED <<profile, frontend, cache, identity, watermarks, refresh_counter, poll_phase,
                   connection_error_count, polled, dropped, dev, abandoned, closed, locals,
                   observed, emitted>>

\* a refresh that waits for the counter to pass the interval
RefreshDueLate(counter) == counter > RefreshInterval

\* if refresh_counter >= self.refresh_interval
RefreshDue(counter) == counter >= RefreshInterval

\* is_active check (debug), dev.get_vital_signs(), the refresh counter,
\* dev.get_patient_data() and the update of the stored identity.  listener
\* and plot do not read dev.is_active.
Poll ==
    /\ pc = "poll"
    /\ \E fault \in {"none", "inactive", "poll_raises"}, read \in PatientReadsOf :
          IF fault = "poll_raises" \/ (fault = "inactive" /\ frontend = "debug")
          THEN /\ polled' = [taken |-> TRUE, fault |-> fault, fetched |-> FALSE,
                             patient_data |-> ReadOfPatientA, changed |-> FALSE]
               /\ Raise
               /\ UNCHANGED <<identity, patient_id, full_name, refreshed>>
          ELSE LET fetched == FetchedIdentity(frontend, read, last_patient_id,
                                              last_patient_name)
                   stored == IdentityStored(frontend, fetched.id, fetched.name,
                                            last_patient_id, last_patient_name)
               IN  /\ polled' = [taken |-> TRUE, fault |-> fault, fetched |-> TRUE,
                                 patient_data |-> read, changed |-> stored]
                   /\ connection_error_count' = 0
                   /\ refreshed' = RefreshDue(refresh_counter + 1)
                   /\ refresh_counter' = IF RefreshDue(refresh_counter + 1)
                                         THEN 0 ELSE refresh_counter + 1
                   /\ poll_phase' = (poll_phase + 1) % RefreshInterval
                   /\ patient_id' = fetched.id
                   /\ full_name' = fetched.name
                   /\ last_patient_id' = IF stored THEN fetched.id ELSE last_patient_id
                   /\ last_patient_name' = IF stored THEN fetched.name
                                           ELSE last_patient_name
                   /\ pc' = "cont"
                   /\ waited' = NoWait
                   /\ closed' = NoClose
                   /\ UNCHANGED <<watermarks, dropped, dev, abandoned>>
    /\ UNCHANGED <<profile, frontend, cache, diff_time, sample, v, w, nbp_fired, bp_sys,
                   bp_dias, out, warned, emitted>>

\* "Process SpO2 and Heart Rate": diff_time, the trigger, the conversion and
\* the store of SpO2 and heart rate.  plot: the whole block.
Continuous ==
    /\ pc = "cont"
    /\ \E ticks \in TickPairs, hr \in ReadingsOf("hr"), oxygen \in ReadingsOf("oxygen") :
          LET diff == DiffTime(ticks[1], ticks[2])
              fired == ContTrigger(diff, last_vital_time)
          IN  /\ diff_time' = diff
              /\ polled' = NoPoll
              /\ sample' = IF profile = "hr"
                           THEN [taken |-> TRUE, reading |-> hr, fired |-> fired,
                                 before |-> last_valid_heart_rate]
                           ELSE IF profile = "oxygen"
                           THEN [taken |-> TRUE, reading |-> oxygen, fired |-> fired,
                                 before |-> last_valid_oxygen]
                           ELSE sample
              /\ IF fired /\ (hr.kind # "num" \/ oxygen.kind # "num")
                 THEN /\ Raise
                      /\ UNCHANGED <<last_valid_heart_rate, last_valid_oxygen>>
                 ELSE /\ last_valid_heart_rate' =
                             HeartRateAfter(fired, hr.val, last_valid_heart_rate)
                      /\ last_valid_oxygen' = OxygenAfter(fired, oxygen.val, last_valid_oxygen)
                      /\ IF frontend = "plot"
                         THEN /\ last_vital_time' = VitalTimeAfter(fired, diff, last_vital_time)
                              /\ pc' = "nbp"
                         ELSE /\ last_vital_time' = last_vital_time
                              /\ pc' = "cont2"
                      /\ dropped' = IF fired THEN NoDrop ELSE dropped
                      /\ UNCHANGED <<last_NBP_time, refresh_counter, poll_phase, connection_error_count,
                                     sessions>>
    /\ UNCHANGED <<profile, frontend, last_valid_temp, last_valid_resp_rate, identity,
                   patient_id, full_name, refreshed, v, w, nbp_fired, bp_sys, bp_dias, out,
                   warned, emitted>>

\* listener, debug: the conversion and the store of temperature and
\* respiratory rate, and last_vital_time = diff_time
ContinuousTempResp ==
    /\ pc = "cont2"
    /\ \E t \in ReadingsOf("temp"), r13 \in ReadingsOf("resp") :
          LET r == IF t.kind = "absent" THEN Absent ELSE r13
              fired == ContTrigger(diff_time, last_vital_time)
              current == ReadTempResp(t, r)
          IN  /\ sample' = IF profile = "temp"
                           THEN [taken |-> TRUE, reading |-> t, fired |-> fired,
                                 before |-> last_valid_temp]
                           ELSE IF profile = "resp"
                           THEN [taken |-> TRUE, reading |-> r, fired |-> fired,
                                 before |-> last_valid_resp_rate]
                           ELSE sample
              /\ last_valid_temp' = TempAfter(fired, current[1], last_valid_temp)
              /\ last_valid_resp_rate' =
                     RespRateAfter(fired, current[2], last_valid_resp_rate)
              /\ last_vital_time' = VitalTimeAfter(fired, diff_time, last_vital_time)
    /\ pc' = "nbp"
    /\ UNCHANGED <<profile, frontend, last_valid_heart_rate, last_valid_oxygen, identity,
                   last_NBP_time, refresh_counter, poll_phase, connection_error_count, polled, dropped,
                   sessions, locals, refreshed, v, w, nbp_fired, bp_sys, bp_dias, out,
                   warned, emitted>>

\* "Process NBP (Blood Pressure)": the trigger, the conversion of the
\* pressures, the discard (debug), the call of the sink or the warning, and
\* last_NBP_time = v
Nbp ==
    /\ pc = "nbp"
    /\ \E tw \in NbpTimesOf, bp \in BpReadingsOf, response \in SinkAnswersOf, now \in NowOf :
          LET nbp_time == tw[1]
              conn_start == tw[2]
              fired == NbpTrigger(nbp_time, conn_start, last_NBP_time)
              call == SinkCall(IF frontend = "plot" THEN "file" ELSE "api",
                               full_name, patient_id,
                               last_valid_heart_rate, last_valid_oxygen,
                               bp[1].val, bp[2].val,
                               IF frontend = "plot" THEN 0 ELSE last_valid_temp,
                               IF frontend = "plot" THEN 0 ELSE last_valid_resp_rate,
                               nbp_time, now, response)
          IN  /\ v' = nbp_time
              /\ w' = conn_start
              /\ nbp_fired' = fired
              /\ bp_sys' = IF fired /\ bp[1].kind = "num" THEN bp[1].val ELSE 0
              /\ bp_dias' = IF fired /\ bp[1].kind = "num" /\ bp[2].kind = "num"
                            THEN bp[2].val ELSE 0
              /\ IF ~fired
                 THEN /\ pc' = "sleep"
                      /\ UNCHANGED <<watermarks, refresh_counter, poll_phase, connection_error_count,
                                     dropped, sessions, out, warned, emitted>>
                 ELSE IF bp[1].kind # "num" \/ bp[2].kind # "num"
                 THEN /\ Raise
                      /\ UNCHANGED <<out, warned, emitted>>
                 ELSE IF Discarded(frontend, bp[1].val)
                 THEN /\ last_NBP_time' = WatermarkAfter(nbp_time, last_NBP_time)
                      /\ pc' = "continue"
                      /\ UNCHANGED <<last_vital_time, refresh_counter, poll_phase,
                                     connection_error_count, dropped, sessions, out, warned,
                                     emitted>>
                 ELSE /\ IF MaySend(frontend, patient_id)
                         THEN /\ out' = call
                              /\ emitted' = emitted \cup {nbp_time}
                              /\ warned' = FALSE
                         ELSE /\ warned' = TRUE
                              /\ UNCHANGED <<out, emitted>>
                      /\ last_NBP_time' = WatermarkAfter(nbp_time, last_NBP_time)
                      /\ pc' = "sleep"
                      /\ UNCHANGED <<last_vital_time, refresh_counter, poll_phase, connection_error_count,
                                     dropped, sessions>>
    /\ UNCHANGED <<profile, frontend, cache, identity, polled, locals, refreshed, sample>>

\* time.sleep(self.poll_interval) / plt.pause(2), then the next iteration
Sleep ==
    /\ pc = "sleep"
    /\ pc' = "poll"
    /\ ClearIteration
    /\ UNCHANGED <<profile, frontend, cache, identity, watermarks, refresh_counter, poll_phase,
                   connection_error_count, dropped, sessions, emitted>>

\* debug: `continue` after a discarded capture, the next iteration at once
Continue ==
    /\ pc = "continue"
    /\ pc' = "poll"
    /\ ClearIteration
    /\ UNCHANGED <<profile, frontend, cache, identity, watermarks, refresh_counter, poll_phase,
                   connection_error_count, dropped, sessions, emitted>>

\* KeyboardInterrupt.  In the data loop, in the wait for is_active and in the
\* delay after a timeout the handler halts `dev`.  While connecting, the
\* interrupt arrives before or after start_client(): listener and plot
\* connect outside their try block, and in debug the handler halts what `dev`
\* was bound to before connect_device().  In the delay after a teardown `dev`
\* is halted already.
Shutdown ==
    /\ pc \in ShutdownPointsOf
    /\ pc' = "stopped"
    /\ IF pc = "connect"
       THEN \E opened \in BOOLEAN :
               IF frontend = "debug"
               THEN /\ dev' = IF dev = "open" THEN "halted" ELSE dev
                    /\ abandoned' = (abandoned \/ opened)
               ELSE /\ dev' = IF opened THEN "open" ELSE dev
                    /\ UNCHANGED abandoned
       ELSE /\ dev' = IF dev = "open" THEN "halted" ELSE dev
            /\ UNCHANGED abandoned
    /\ waited' = NoWait
    /\ closed' = NoClose
    /\ ClearIteration
    /\ UNCHANGED <<profile, frontend, cache, identity, watermarks, refresh_counter, poll_phase,
                   connection_error_count, dropped, emitted>>

Next ==
    \/ Shutdown
    \/ Connect
    \/ Backoff
    \/ Poll
    \/ Continuous
    \/ ContinuousTempResp
    \/ Nbp
    \/ Sleep
    \/ Continue

Spec == Init /\ [][Next]_vars

SpecChannels == InitChannels /\ [][Next]_vars

SpecSinkDown == InitSinkDown /\ [][Next]_vars

SpecSession == InitSession /\ [][Next]_vars

(* ------------------------------ properties ---------------------------- *)

\* C1: over the polls of one run, an NBP timestamp is handed to the sink at
\* most once: a poll never hands over a timestamp that was handed over before.
C1_OncePerTimestamp ==
    [][(out'.sink # "none" /\ out' # out) => out'.timestamp \notin emitted]_vars

\* C2: a poll with a new NBP timestamp v later than the connection start,
\* plausible pressures and a patient id calls the sink for v and sets the
\* watermark to v; the watermark stands until the NBP block of the next poll
\* of the session; a poll whose v equals the watermark does not call the sink.
C2_SameTimestampTwice ==
    [][ /\ ( /\ pc = "nbp"
             /\ v' > w' /\ v' # last_NBP_time
             /\ bp_sys' >= R(BpSysArtifact) /\ bp_sys' < R(BpSysMax)
             /\ bp_dias' > 0 /\ bp_dias' < R(BpDiasMax)
             /\ patient_id # EmptyStr )
           => ( /\ pc' = "sleep"
                /\ out'.sink # "none"
                /\ out'.timestamp = v'
                /\ emitted' = emitted \cup {v'}
                /\ last_NBP_time' = v' )
        /\ (pc \in {"sleep", "poll", "cont", "cont2"} /\ pc' \in {"poll", "cont", "cont2", "nbp"})
           => last_NBP_time' = last_NBP_time
        /\ (pc = "nbp" /\ v' = last_NBP_time)
           => (out' = NoEvent /\ emitted' = emitted /\ last_NBP_time' = last_NBP_time)
      ]_vars

\* the second of two polls with the same v: v was handed over, the poll did not fire
C2_SecondPollReached ==
    /\ pc = "sleep"
    /\ ~nbp_fired
    /\ v > w
    /\ v = last_NBP_time
    /\ v \in emitted
    /\ patient_id # EmptyStr

\* C3 as stated: a snapshot taken in the initial state whose tick delta is 0
\* and that carries HR=72 and SpO2=98 leaves HR=72, SpO2=98 in the cache.
C3_ZeroDeltaUpdatesCache ==
    ( /\ profile = "hr"
      /\ pc \in {"cont2", "nbp"}
      /\ sample.taken
      /\ sample.reading = Num(R(72))
      /\ sample.before = 0
      /\ diff_time = 0
      /\ last_NBP_time = InitialNbpTime
      /\ emitted = {} )
    => (last_valid_heart_rate = R(72) /\ last_valid_oxygen = R(98))

\* C3, amended: a snapshot that carries HR=72 and SpO2=98 updates the cache to
\* HR=72, SpO2=98 exactly when its tick delta differs from the continuous
\* watermark (0 initially), and emits nothing; the two entries stand until the
\* next continuous block; a fired NBP trigger with sys=120, dias=80 and id
\* ID123 then hands one event to the sink that carries the cached HR and
\* SpO2, sys 120, dias 80 and ID123.
C3_EndToEnd ==
    [][ /\ (pc = "cont" /\ profile = "hr" /\ sample'.taken /\ sample'.reading = Num(R(72)))
           => ( /\ sample'.fired <=> (diff_time' # last_vital_time)
                /\ IF sample'.fired
                   THEN last_valid_heart_rate' = R(72) /\ last_valid_oxygen' = R(98)
                   ELSE UNCHANGED <<last_valid_heart_rate, last_valid_oxygen>>
                /\ out' = NoEvent
                /\ emitted' = emitted )
        /\ pc # "cont" => UNCHANGED <<last_valid_heart_rate, last_valid_oxygen>>
        /\ ( /\ pc = "nbp"
             /\ nbp_fired'
             /\ bp_sys' = R(120) /\ bp_dias' = R(80)
             /\ JoinSplit(patient_id) = PatientA )
           => ( /\ out'.sink # "none"
                /\ out'.heart_rate = last_valid_heart_rate
                /\ out'.oxygen = last_valid_oxygen
                /\ out'.bp_sys = R(120) /\ out'.bp_dias = R(80)
                /\ out'.timestamp = v'
                /\ emitted' = emitted \cup {v'}
                /\ IF out'.sink = "api"
                   THEN /\ out'.payload["patient_code"] = PatientA
                        /\ out'.payload["blood_pressure_systolic"] = R(120)
                        /\ out'.payload["blood_pressure_diastolic"] = R(80)
                        /\ last_valid_heart_rate = R(72) => out'.payload["pulse_rate"] = R(72)
                        /\ last_valid_oxygen = R(98) => out'.payload["spo2"] = R(98)
                   ELSE /\ out'.payload["id"] = PatientA
                        /\ out'.payload["bp_sys"] = R(120)
                        /\ out'.payload["bp_dias"] = R(80)
                        /\ last_valid_heart_rate = R(72) => out'.payload["heart_rate"] = R(72)
                        /\ last_valid_oxygen = R(98) => out'.payload["oxygen"] = R(98) )
      ]_vars

\* the event of the scenario reached the API
C3_EventReached ==
    /\ profile = "hr"
    /\ pc = "sleep"
    /\ out.sink = "api"
    /\ out.payload["patient_code"] = PatientA
    /\ out.payload["blood_pressure_systolic"] = R(120)
    /\ out.payload["blood_pressure_diastolic"] = R(80)
    /\ "pulse_rate" \in DOMAIN out.payload
    /\ out.payload["pulse_rate"] = R(72)
    /\ "spo2" \in DOMAIN out.payload
    /\ out.payload["spo2"] = R(98)

\* C4: when an NBP trigger fires with systolic below 10, no event is handed
\* to the sink and the watermark is set to the snapshot's NBP timestamp, in
\* every front-end.
C4_ArtifactDiscarded ==
    (nbp_fired /\ pc \in {"sleep", "continue"} /\ bp_sys < R(BpSysArtifact))
    => (out = NoEvent /\ last_NBP_time = v)

\* C5: when an NBP trigger fires while the patient id is empty, the sink is
\* not called, the warning is logged and the watermark is set to the
\* snapshot's NBP timestamp.
C5_NoIdNoEvent ==
    (nbp_fired /\ pc = "sleep" /\ patient_id = EmptyStr)
    => (out = NoEvent /\ warned /\ last_NBP_time = v)

\* the cache entry of a channel
CacheEntry(channel) ==
    CASE channel = "hr" -> last_valid_heart_rate
      [] channel = "oxygen" -> last_valid_oxygen
      [] channel = "temp" -> last_valid_temp
      [] OTHER -> last_valid_resp_rate

\* C6: each cache entry is its initial value 0 or a reading inside the
\* plausibility bounds of its channel.
C6_CacheWithinBounds ==
    /\ last_valid_heart_rate = 0
       \/ (last_valid_heart_rate > 0 /\ last_valid_heart_rate < R(HeartRateMax))
    /\ last_valid_oxygen = 0
       \/ (last_valid_oxygen > 0 /\ last_valid_oxygen <= R(OxygenMax))
    /\ last_valid_temp = 0
       \/ (last_valid_temp > R(TempMin) /\ last_valid_temp < R(TempMax))
    /\ last_valid_resp_rate = 0
       \/ (last_valid_resp_rate > 0 /\ last_valid_resp_rate < R(RespRateMax))

\* C7: after a continuous block that read the sentinel on a channel, whether
\* its trigger fired or not, the cache entry of that channel is what it was
\* before the block.
C7_SentinelKeepsCache ==
    (sample.taken /\ sample.reading = Num(Sentinel)) => CacheEntry(profile) = sample.before

\* a fired continuous block read the sentinel on a channel whose entry held a reading
C7_SentinelRead ==
    /\ sample.taken
    /\ sample.fired
    /\ sample.reading = Num(Sentinel)
    /\ sample.before # 0

\* C8 as stated: in a request to the API each optional field is present iff
\* the value is within its bounds, and no field carries a value outside them.
C8_PayloadWithinBounds ==
    out.sink = "api" =>
        LET p == out.payload
            has(f) == f \in DOMAIN p
        IN  /\ has("blood_pressure_systolic") <=> (out.bp_sys > 0 /\ out.bp_sys < R(BpSysMax))
            /\ has("blood_pressure_diastolic") <=> (out.bp_dias > 0 /\ out.bp_dias < R(BpDiasMax))
            /\ has("pulse_rate") <=> (out.heart_rate > 0 /\ out.heart_rate < R(HeartRateMax))
            /\ has("spo2") <=> (out.oxygen > 0 /\ out.oxygen <= R(OxygenMax))
            /\ has("temperature") <=>
                   (out.temperature > R(TempMin) /\ out.temperature < R(TempMax))
            /\ has("respiratory_rate") <=> (out.resp_rate > 0 /\ out.resp_rate < R(RespRateMax))
            /\ has("blood_pressure_systolic") =>
                   (p["blood_pressure_systolic"] > 0 /\ p["blood_pressure_systolic"] < R(BpSysMax))
            /\ has("blood_pressure_diastolic") =>
                   (p["blood_pressure_diastolic"] > 0
                    /\ p["blood_pressure_diastolic"] < R(BpDiasMax))
            /\ has("pulse_rate") => (p["pulse_rate"] > 0 /\ p["pulse_rate"] < R(HeartRateMax))
            /\ has("spo2") => (p["spo2"] > 0 /\ p["spo2"] <= R(OxygenMax))
            /\ has("temperature") =>
                   (p["temperature"] > R(TempMin) /\ p["temperature"] < R(TempMax))
            /\ has("respiratory_rate") =>
                   (p["respiratory_rate"] > 0 /\ p["respiratory_rate"] < R(RespRateMax))

\* C8, amended: in a request to the API each optional field is present iff
\* the value passed is within its bounds; it carries int() of the value (the
\* pressures, pulse_rate, respiratory_rate) or round(, 1) of it (spo2,
\* temperature), which lies within the bounds or on one of them, and is never
\* the sentinel.
C8_PayloadFields ==
    out.sink = "api" =>
        LET p == out.payload
            has(f) == f \in DOMAIN p
        IN  /\ has("blood_pressure_systolic") <=> (out.bp_sys > 0 /\ out.bp_sys < R(BpSysMax))
            /\ has("blood_pressure_diastolic") <=> (out.bp_dias > 0 /\ out.bp_dias < R(BpDiasMax))
            /\ has("pulse_rate") <=> (out.heart_rate > 0 /\ out.heart_rate < R(HeartRateMax))
            /\ has("spo2") <=> (out.oxygen > 0 /\ out.oxygen <= R(OxygenMax))
            /\ has("temperature") <=>
                   (out.temperature > R(TempMin) /\ out.temperature < R(TempMax))
            /\ has("respiratory_rate") <=> (out.resp_rate > 0 /\ out.resp_rate < R(RespRateMax))
            /\ has("blood_pressure_systolic") =>
                   /\ p["blood_pressure_systolic"] = IntOf(out.bp_sys)
                   /\ p["blood_pressure_systolic"] >= 0
                   /\ p["blood_pressure_systolic"] < R(BpSysMax)
            /\ has("blood_pressure_diastolic") =>
                   /\ p["blood_pressure_diastolic"] = IntOf(out.bp_dias)
                   /\ p["blood_pressure_diastolic"] >= 0
                   /\ p["blood_pressure_diastolic"] < R(BpDiasMax)
            /\ has("pulse_rate") =>
                   /\ p["pulse_rate"] = IntOf(out.heart_rate)
                   /\ p["pulse_rate"] >= 0
                   /\ p["pulse_rate"] < R(HeartRateMax)
            /\ has("spo2") =>
                   /\ p["spo2"] = Round1(out.oxygen)
                   /\ p["spo2"] >= 0
                   /\ p["spo2"] <= R(OxygenMax)
            /\ has("temperature") =>
                   /\ p["temperature"] = Round1(out.temperature)
                   /\ p["temperature"] >= R(TempMin)
                   /\ p["temperature"] <= R(TempMax)
            /\ has("respiratory_rate") =>
                   /\ p["respiratory_rate"] = IntOf(out.resp_rate)
                   /\ p["respiratory_rate"] >= 0
                   /\ p["respiratory_rate"] < R(RespRateMax)

\* a request went out while the cache held a heart rate outside the bounds
C8_OutOfBoundsLeftOut ==
    /\ out.sink = "api"
    /\ out.heart_rate < 0
    /\ "pulse_rate" \notin DOMAIN out.payload
    /\ "spo2" \in DOMAIN out.payload

\* C9: whenever the NBP trigger fired in an iteration, the watermark equals
\* the snapshot's NBP timestamp before the next poll.
C9_WatermarkAlwaysAdvances ==
    (nbp_fired /\ pc \in {"sleep", "continue", "backoff"}) => last_NBP_time = v

\* C10: the NBP trigger fires in a poll iff the NBP timestamp differs from
\* the watermark and is later than the connection start; a poll whose trigger
\* does not fire emits nothing and leaves the watermark; one whose trigger
\* fires and that goes on to the next poll has set the watermark.
C10_NbpTriggerRule ==
    [][ pc = "nbp" =>
          /\ nbp_fired' <=> (v' # last_NBP_time /\ v' > w')
          /\ ~nbp_fired' =>
                 /\ out' = NoEvent
                 /\ emitted' = emitted
                 /\ last_NBP_time' = last_NBP_time
                 /\ pc' = "sleep"
          /\ (nbp_fired' /\ pc' \in {"sleep", "continue"}) => last_NBP_time' = v'
      ]_vars

\* a poll whose NBP timestamp is new but not later than the connection start
C10_NotYetAReading ==
    /\ pc = "sleep"
    /\ ~nbp_fired
    /\ v # 0
    /\ v <= w
    /\ v # last_NBP_time

\* C11: a snapshot whose continuous timestamp equals the continuous watermark
\* fires no continuous-update trigger: its continuous block leaves the cache
\* and the watermark alone, whatever its raw readings are.  The watermark is
\* the continuous timestamp of the last snapshot whose block ran to its end,
\* and nothing else in the session changes it.
C11_SameTimestampNoUpdate ==
    [][ /\ (pc = "cont" /\ diff_time' = last_vital_time)
           => (pc' \in {"cont2", "nbp"} /\ UNCHANGED <<cache, last_vital_time>>)
        /\ (pc = "cont2" /\ diff_time = last_vital_time)
           => UNCHANGED <<cache, last_vital_time>>
        /\ (pc \in {"cont", "cont2"} /\ pc' = "nbp") => last_vital_time' = diff_time'
        /\ (pc \in {"nbp", "sleep", "continue", "poll"}
            /\ pc' \in {"sleep", "continue", "poll", "cont"})
           => last_vital_time' = last_vital_time
      ]_vars

\* a snapshot with an unchanged continuous timestamp carried an SpO2 reading
\* that differs from the cached one and that a fired block would have stored
C11_RepeatedTimestampRead ==
    /\ profile = "oxygen"
    /\ pc = "nbp"
    /\ sample.taken
    /\ ~sample.fired
    /\ sample.before = R(98)
    /\ sample.reading = Num(R(OxygenMax))
    /\ last_valid_oxygen = R(98)

\* C12: heart rate, SpO2, temperature and respiratory rate handed to the sink
\* are the cache entries (the file sink takes heart rate and SpO2 only); when
\* the continuous timestamp of the poll was unchanged, the value sent for a
\* channel is the cache entry as it was before the poll, not the raw reading.
C12_EventUsesCache ==
    out.sink # "none" =>
        /\ out.heart_rate = last_valid_heart_rate
        /\ out.oxygen = last_valid_oxygen
        /\ out.sink = "api" =>
               (out.temperature = last_valid_temp /\ out.resp_rate = last_valid_resp_rate)
        /\ (sample.taken /\ ~sample.fired) =>
               sample.before = CASE profile = "hr" -> out.heart_rate
                                 [] profile = "oxygen" -> out.oxygen
                                 [] profile = "temp" -> out.temperature
                                 [] OTHER -> out.resp_rate

\* an event went to the API from a poll with unchanged continuous timestamp
\* whose raw SpO2 (100) differs from the cached one (98)
C12_StaleSnapshotSent ==
    /\ profile = "oxygen"
    /\ out.sink = "api"
    /\ sample.taken
    /\ ~sample.fired
    /\ sample.reading = Num(R(OxygenMax))
    /\ sample.before = R(98)
    /\ out.oxygen = R(98)
    /\ out.payload["spo2"] = R(98)

\* C13 (listener, debug): a poll whose identity fetch raises, or returns an
\* empty id, prename and name, leaves the stored id and name unchanged; a
\* stored id that is not empty never becomes empty.
C13_IdentityRetained ==
    [][ frontend # "plot" =>
          /\ ( /\ pc = "poll"
               /\ polled'.taken
               /\ polled'.fetched
               /\ \/ polled'.patient_data.raises
                  \/ /\ Strip(polled'.patient_data.id) = EmptyStr
                     /\ Strip(polled'.patient_data.prename) = EmptyStr
                     /\ Strip(polled'.patient_data.name) = EmptyStr )
             => UNCHANGED <<last_patient_id, last_patient_name>>
          /\ last_patient_id # EmptyStr => last_patient_id' # EmptyStr
      ]_vars

\* the fetch raised in a poll of a session that had stored ID123 / John Doe
C13_FetchFailedWithIdentity ==
    /\ frontend # "plot"
    /\ pc = "cont"
    /\ polled.taken
    /\ polled.fetched
    /\ polled.patient_data.raises
    /\ last_patient_id = PatientA
    /\ last_patient_name = John \o <<Space>> \o Doe

\* C14: in every forwarding front-end, a poll made while the source reports
\* inactive leaves the data loop for the teardown and the reconnect delay.
C14_InactiveLeavesLoop ==
    (frontend # "plot" /\ polled.taken /\ polled.fault = "inactive") => pc = "backoff"

\* C15: the watermarks last_vital_time and last_NBP_time keep their values
\* across the teardown of a session, the reconnect delay and the reopening.
C15_WatermarksSurviveReconnect ==
    [][ (frontend = "debug" /\ (pc' \in {"backoff", "connect"} \/ pc \in {"backoff", "connect"}))
          => UNCHANGED <<last_vital_time, last_NBP_time>> ]_vars

\* C16: from the moment the data loop is left until the next new continuous
\* sample, through teardown, delay and reopening, the last-valid cache is the
\* one held when the loop was left, and an event handed to the sink in that
\* time carries those values.
C16_CacheSurvivesReconnect ==
    dropped.at =>
        /\ cache = dropped.cache
        /\ out.sink # "none" =>
              /\ out.heart_rate = dropped.cache[1]
              /\ out.oxygen = dropped.cache[2]
              /\ out.temperature = dropped.cache[3]
              /\ out.resp_rate = dropped.cache[4]

\* after a reconnect the first polls repeat the continuous timestamp 0 with a
\* heart rate of 300 while 72 was cached before the drop, and the event
\* carries 72
C16_EventAfterReconnect ==
    /\ profile = "hr"
    /\ frontend = "debug"
    /\ dropped.at
    /\ dropped.cache[1] = R(72)
    /\ sample.taken
    /\ ~sample.fired
    /\ sample.reading = Num(R(HeartRateMax))
    /\ out.sink = "api"
    /\ out.heart_rate = R(72)
    /\ out.payload["pulse_rate"] = R(72)

\* C17 (debug): the session is torn down only after the consecutive failures
\* of the data loop have exceeded MAX_CONNECTION_ERRORS.
C17_TeardownAfterMaxErrors ==
    (frontend = "debug" /\ pc = "backoff" /\ polled.taken /\ polled.fault = "poll_raises")
        => connection_error_count > MaxConnectionErrors

\* C18: a failure while connecting or polling never ends the process: the
\* program does not come to rest after one (a run that a shutdown request
\* ends comes to rest in "stopped").
C18_NoTerminalState ==
    frontend # "plot" => pc # "exit"

\* C19: an iteration whose NBP trigger fired runs to its end whatever the
\* channel values are: an error raised while the snapshot is processed does
\* not take the program out of the polling loop.
C19_ProcessingErrorStaysInLoop ==
    (frontend # "plot" /\ nbp_fired) => pc \in {"sleep", "continue"}

\* C20 (listener): once the call of the sink for an NBP timestamp has failed,
\* no later poll that reports this timestamp calls the sink for it again.
C20_FailedEventNotResent ==
    [][ (frontend = "listener" /\ pc = "nbp" /\ v' \in emitted) => out' = NoEvent ]_vars

\* C21 (debug): after a session is opened the data loop is entered when the
\* device reports active within ConnectTimeout one-second checks, with
\* wait_count the seconds it took; otherwise the session is not polled, the
\* reconnect delay follows, and only after it a new session is opened (unless
\* a shutdown request ends the run).
C21_ConnectWait ==
    [][ /\ (pc = "connect" /\ waited'.taken)
           => /\ frontend = "debug"
              /\ dev' = "open"
              /\ IF waited'.active_after \in 0..ConnectTimeout
                 THEN /\ pc' = "poll"
                      /\ waited'.wait_count = waited'.active_after
                 ELSE /\ pc' = "backoff"
                      /\ waited'.wait_count = ConnectTimeout
                      /\ polled' = NoPoll
        /\ (pc = "backoff" /\ pc' # "stopped")
           => (pc' = "connect" /\ polled' = polled /\ dev' = dev)
        /\ dev' = "open" => (dev = "open" \/ pc = "connect")
      ]_vars

\* the device became active one second after the last check
C21_ActiveTooLate ==
    /\ frontend = "debug"
    /\ pc = "backoff"
    /\ waited.taken
    /\ waited.active_after = ConnectTimeout + 1
    /\ waited.wait_count = ConnectTimeout
    /\ dev = "open"

\* C22: in a session with refresh interval N the counter equals the number
\* of polls of the session modulo N, and a poll calls refresh_patient_data()
\* exactly when its number in the session is a multiple of N, which leaves
\* the counter at 0.
C22_RefreshCadence ==
    /\ refresh_counter = poll_phase
    /\ refresh_counter \in 0..(RefreshInterval - 1)
    /\ pc \in {"cont", "cont2", "nbp", "sleep", "continue"}
          => (refreshed <=> poll_phase = 0)
    /\ pc = "poll" => ~refreshed

\* the refresh of a session that was opened after a reconnect
C22_RefreshAfterReconnect ==
    /\ frontend = "debug"
    /\ dropped.at
    /\ pc = "cont"
    /\ refreshed
    /\ refresh_counter = 0

\* C23 (listener, debug): a poll reports a patient change and replaces the
\* stored identity only when the id or the full name it read differs from
\* the stored one, and then the stored identity is the one read; otherwise
\* the stored identity stays.  Reading the same patient data again reports
\* nothing and stores nothing.
C23_ChangeOnlyOnDifference ==
    [][ frontend # "plot" =>
          /\ (pc = "poll" /\ polled'.taken /\ polled'.fetched /\ polled'.changed)
                => /\ patient_id' # last_patient_id \/ full_name' # last_patient_name
                   /\ last_patient_id' = patient_id'
                   /\ last_patient_name' = full_name'
          /\ ~(pc = "poll" /\ polled'.taken /\ polled'.fetched /\ polled'.changed)
                => UNCHANGED <<last_patient_id, last_patient_name>>
          /\ (pc = "poll" /\ polled'.taken /\ polled'.fetched)
                => LET again == FetchedIdentity(frontend, polled'.patient_data,
                                                last_patient_id', last_patient_name')
                   IN  ~IdentityStored(frontend, again.id, again.name,
                                       last_patient_id', last_patient_name')
      ]_vars

\* ID123 / John Doe is stored and read again: nothing is reported
C23_RepeatedRead ==
    /\ frontend # "plot"
    /\ pc = "cont"
    /\ polled.fetched
    /\ ~polled.changed
    /\ polled.patient_data = ReadOfPatientA
    /\ last_patient_id = PatientA
    /\ patient_id = PatientA

\* C24 (listener, debug): the stored identity is whitespace-normalized: the
\* stored id and name have no leading or trailing space and no run of more
\* than one space.
C24_StoredIdentityNormalized ==
    frontend # "plot" =>
        /\ last_patient_id = JoinSplit(last_patient_id)
        /\ last_patient_name = JoinSplit(last_patient_name)

\* C25 (debug): when an open session is left because of a failure,
\* halt_client() is called on it, and whether or not that call raises the
\* reconnect delay follows and after it a new connection attempt (unless a
\* shutdown request ends the run).
C25_CloseFailureSwallowed ==
    [][ frontend = "debug" =>
          /\ (pc \in {"poll", "cont", "cont2", "nbp"} /\ pc' \notin {pc, "cont", "cont2",
                                                                   "nbp", "sleep", "continue",
                                                                   "stopped"})
                => (pc' = "backoff" /\ closed'.taken /\ dev = "open" /\ dev' = "halted")
          /\ (closed.taken /\ pc = "backoff" /\ pc' # "stopped")
                => (pc' = "connect" /\ closed' = closed)
          /\ (closed.taken /\ pc = "connect" /\ pc' = "poll") => dev' = "open"
      ]_vars

\* halt_client() raised in the teardown, and a new session is open and about
\* to be polled
C25_ReconnectedAfterFailedClose ==
    /\ frontend = "debug"
    /\ pc = "poll"
    /\ closed.taken
    /\ closed.failed
    /\ dev = "open"
    /\ dropped.at

\* C26: when the run has ended on a shutdown request, no session is open:
\* the session bound to `dev` was halted, and no session was left behind.
C26_ShutdownClosesSession ==
    (frontend # "plot" /\ pc = "stopped") => (dev # "open" /\ ~abandoned)

\* C27: every poll of a session after its first follows the sleep of the
\* iteration before it: an iteration that does not end the session ends with
\* time.sleep(poll_interval).
C27_SleepBeforeNextPoll ==
    [][ (frontend # "plot" /\ pc' = "poll" /\ pc # "poll") => pc \in {"connect", "sleep"} ]_vars

\* C28: the continuous block fires exactly when the continuous timestamp of
\* the snapshot differs from the watermark, be it larger or smaller; a block
\* that fired stores a valid heart rate and leaves the watermark at the
\* timestamp of the snapshot.
C28_AnyChangeFires ==
    [][ /\ (profile \in {"hr", "oxygen"} /\ pc = "cont" /\ pc' \in {"cont2", "nbp"})
           => /\ sample'.fired <=> (diff_time' # last_vital_time)
              /\ (profile = "hr" /\ sample'.fired /\ sample'.reading = Num(R(72)))
                    => last_valid_heart_rate' = R(72)
        /\ (profile \in {"temp", "resp"} /\ pc = "cont2")
           => (sample'.fired <=> (diff_time # last_vital_time))
        /\ (pc = "cont2" \/ (pc = "cont" /\ pc' = "nbp"))
           => last_vital_time' = diff_time'
      ]_vars

\* the timestamp went back from 1 to 0 and the block fired
C28_FiredOnDecrease ==
    /\ profile = "hr"
    /\ frontend = "listener"
    /\ pc = "cont2"
    /\ sample.fired
    /\ diff_time = 0
    /\ last_vital_time = 1
    /\ sample.reading = Num(R(72))
    /\ last_valid_heart_rate = R(72)

\* C29: send_vital_signs returns True exactly when the response status is
\* 200 or 201, whatever the body of the response is.
C29_SuccessIffStatusOk ==
    out.sink = "api" =>
        (out.accepted <=> (out.response.kind = "http" /\ out.response.status \in {200, 201}))

\* C30 (debug): at most one device session is open at any time: no session
\* is replaced by a new one before halt_client() was called on it.
C30_OneSessionOpen ==
    frontend = "debug" => ~(abandoned /\ dev = "open")

\* C31: the stored identity is the initial empty identity or the (id, full
\* name) pair of one read of the device: no stored identity holds the id of
\* one read and the name of another.
C31_StoredPairFromOneRead ==
    frontend # "plot" =>
        \/ last_patient_id = EmptyStr /\ last_patient_name = EmptyStr
        \/ \E read \in PatientReadsOf :
              /\ ~read.raises
              /\ last_patient_id = Strip(read.id)
              /\ last_patient_name =
                     Strip(Strip(read.prename) \o <<Space>> \o Strip(read.name))

\* C32: an event handed to the sink carries the identity the tracker holds at
\* that moment: its patient id and full name are last_patient_id and
\* last_patient_name, and the patient_code of its body is that id with its
\* whitespace normalized.
C32_EventCarriesStoredIdentity ==
    (frontend # "plot" /\ out.sink # "none") =>
        /\ out.patient_id = last_patient_id
        /\ out.patient_name = last_patient_name
        /\ out.payload["patient_code"] = JoinSplit(last_patient_id)

\* an event sent in a poll that read an empty id and the name Jane: it
\* carries the id kept from an earlier read, as the tracker does
C32_EventAfterFallback ==
    /\ frontend = "listener"
    /\ pc = "sleep"
    /\ out.sink = "api"
    /\ out.patient_id = PatientA
    /\ out.patient_name = Jane
    /\ last_patient_id = PatientA
    /\ last_patient_name = Jane

\* C33: an event sent in the iteration whose snapshot also carried a new
\* continuous sample is assembled after the cache update: it carries the
\* valid heart rate and SpO2 of that snapshot.  With no new continuous
\* sample it carries what the cache held before the iteration.
C33_CacheUpdatedBeforeEvent ==
    ( /\ frontend # "plot"
      /\ profile \in {"hr", "oxygen"}
      /\ pc = "sleep"
      /\ out.sink # "none"
      /\ sample.taken )
    => LET reading == sample.reading.val
           carried == IF profile = "hr" THEN out.heart_rate ELSE out.oxygen
           valid == /\ reading # Sentinel
                    /\ IF profile = "hr" THEN reading < R(HeartRateMax)
                       ELSE reading <= R(OxygenMax)
       IN  /\ carried = IF sample.fired /\ valid THEN reading ELSE sample.before
           /\ (profile = "hr" /\ sample.fired)
                 => out.oxygen = NominalReading["oxygen"].val
           /\ (profile = "oxygen" /\ sample.fired)
                 => out.heart_rate = NominalReading["hr"].val
           /\ (profile = "hr" /\ carried > 0)
                 => out.payload["pulse_rate"] = IntOf(carried)
           /\ (profile = "oxygen" /\ carried > 0)
                 => out.payload["spo2"] = Round1(carried)

\* one snapshot brought a new sample with SpO2 100 while the cache held 98,
\* and a new NBP timestamp: the event carries 100
C33_NewSampleAndNewNbp ==
    /\ frontend = "listener"
    /\ profile = "oxygen"
    /\ pc = "sleep"
    /\ nbp_fired
    /\ out.sink = "api"
    /\ sample.taken
    /\ sample.fired
    /\ sample.before = R(98)
    /\ sample.reading = Num(R(OxygenMax))
    /\ out.oxygen = R(OxygenMax)
    /\ out.payload["spo2"] = R(OxygenMax)

\* C34: the measured_at of every event handed to the API sink is the NBP
\* timestamp v of the snapshot whose trigger fired, in the format
\* YYYY-MM-DD HH:MM:SS: the call passes v, and the sink does not replace it
\* by the time of the call.
C34_MeasuredAtIsNbpTime ==
    (frontend # "plot" /\ out.sink # "none") =>
        /\ nbp_fired
        /\ out.timestamp = v
        /\ out.payload["measured_at"] =
               <<"1", "9", "9", "0", "-", "0", "1", "-", "0", "1", " ",
                 "0", "0", ":", "0", "0", ":", "0", Digit(v)>>

\* an event for the NBP timestamp 2 (01.01.1990 00:00:02)
C34_EventForSecondTwo ==
    /\ frontend = "debug"
    /\ pc = "sleep"
    /\ nbp_fired
    /\ v = 2
    /\ out.sink = "api"
    /\ out.payload["measured_at"] =
           <<"1", "9", "9", "0", "-", "0", "1", "-", "0", "1", " ",
             "0", "0", ":", "0", "0", ":", "0", "2">>

\* C35 as stated: a snapshot that lacks the temperature or the
\* respiratory-rate entry raises no error and leaves both the temperature
\* and the respiratory-rate cache entry unchanged.
C35_MissingChannelKeepsBoth ==
    [][ (pc = "cont2" /\ sample'.taken /\ sample'.reading = Absent)
           => (pc' = "nbp" /\ UNCHANGED <<last_valid_temp, last_valid_resp_rate>>)
      ]_vars

\* C35, amended: a snapshot that lacks the temperature or the
\* respiratory-rate entry raises no error and leaves the cache entry of every
\* channel it lacks unchanged; a snapshot that lacks only the respiratory
\* rate still stores its valid temperature when the continuous trigger
\* fired; heart rate and SpO2 of the same snapshot are in the cache.
C35_MissingChannelKeepsItsEntry ==
    [][ (pc = "cont2" /\ sample'.taken /\ sample'.reading = Absent)
           => /\ pc' = "nbp"
              /\ last_valid_resp_rate' = last_valid_resp_rate
              /\ profile = "temp" => last_valid_temp' = last_valid_temp
              /\ profile = "resp"
                    => last_valid_temp' = IF sample'.fired
                                          THEN NominalReading["temp"].val
                                          ELSE last_valid_temp
              /\ sample'.fired
                    => /\ last_valid_heart_rate' = NominalReading["hr"].val
                       /\ last_valid_oxygen' = NominalReading["oxygen"].val
              /\ UNCHANGED <<last_valid_heart_rate, last_valid_oxygen>>
      ]_vars

\* a new sample without the temperature entry: the earlier 36.64 stays in the
\* cache, the loop goes on to the NBP block
C35_TempEntryMissing ==
    /\ profile = "temp"
    /\ frontend = "listener"
    /\ pc = "nbp"
    /\ sample.taken
    /\ sample.reading = Absent
    /\ sample.fired
    /\ sample.before = NominalReading["temp"].val
    /\ last_valid_temp = NominalReading["temp"].val
    /\ last_valid_resp_rate = NominalReading["resp"].val
    /\ last_valid_heart_rate = NominalReading["hr"].val

=============================================================================
